---------------------------- MODULE Spec2Model ----------------------------
(***************************************************************************)
(* Model of the Rosetta Code lexical analyzer (lex.cpp): the Scanner       *)
(* cursor, the Lexer's next_token with all of its scanning routines, the   *)
(* token renderer, and the driver loop of main.                            *)
(*                                                                         *)
(* Characters are one-character strings; a C string is a sequence of them  *)
(* followed by NUL.  Pointers into the source buffer are 1-based indexes.  *)
(* A 32-bit int is a pair <<hi, lo>> of 16-bit halves (two's complement),  *)
(* a 64-bit long is four 16-bit limbs, least significant first.            *)
(***************************************************************************)
EXTENDS Integers, Sequences, FiniteSets, TLC

\* ------------------------------------------------------------------------
\* Bounds
\* ------------------------------------------------------------------------
\* Longest input enumerated exhaustively over ScanAlphabet.
MaxLen == 3

\* Number of readable bytes that may follow the terminating NUL in memory.
MaxGarbage == 2

\* ------------------------------------------------------------------------
\* Characters
\* ------------------------------------------------------------------------
NUL == "NUL"
NL  == "\n"
TAB == "\t"
CR  == "\r"
FF  == "\f"
VT  == "VT"
DQ  == "\""
SQ  == "'"
BSL == "\\"
BQ  == "BQ"

\* What a read of an address outside the mapped buffer stands for.
SEGV == "SEGV"

Digits == {"0", "1", "2", "3", "4", "5", "6", "7", "8", "9"}

Lower == {"a", "b", "c", "d", "e", "f", "g", "h", "i", "j", "k", "l", "m",
          "n", "o", "p", "q", "r", "s", "t", "u", "v", "w", "x", "y", "z"}

Upper == {"A", "B", "C", "D", "E", "F", "G", "H", "I", "J", "K", "L", "M",
          "N", "O", "P", "Q", "R", "S", "T", "U", "V", "W", "X", "Y", "Z"}

\* The printable ASCII characters in code order, starting at code 32.
Printable ==
    <<" ", "!", DQ, "#", "$", "%", "&", SQ, "(", ")", "*", "+", ",", "-", ".", "/",
      "0", "1", "2", "3", "4", "5", "6", "7", "8", "9", ":", ";", "<", "=", ">", "?",
      "@", "A", "B", "C", "D", "E", "F", "G", "H", "I", "J", "K", "L", "M", "N", "O",
      "P", "Q", "R", "S", "T", "U", "V", "W", "X", "Y", "Z", "[", BSL, "]", "^", "_",
      BQ, "a", "b", "c", "d", "e", "f", "g", "h", "i", "j", "k", "l", "m", "n", "o",
      "p", "q", "r", "s", "t", "u", "v", "w", "x", "y", "z", "{", "|", "}", "~">>

\* char -> int conversion (ASCII code of a character).
Ord(c) ==
    CASE c = NUL -> 0
      [] c = TAB -> 9
      [] c = NL  -> 10
      [] c = VT  -> 11
      [] c = FF  -> 12
      [] c = CR  -> 13
      [] OTHER   -> 31 + (CHOOSE k \in 1..Len(Printable) : Printable[k] = c)

isspace(c) == c \in {" ", TAB, NL, VT, FF, CR}
isalpha(c) == c \in Lower \cup Upper
isdigit(c) == c \in Digits
isalnum(c) == isalpha(c) \/ isdigit(c)

is_id_start(c) == isalpha(c) \/ c = "_"
is_id_end(c)   == isalnum(c) \/ c = "_"
is_digit(c)    == isdigit(c)

\* ------------------------------------------------------------------------
\* Scanner
\* ------------------------------------------------------------------------
\* Scanner(source): pos at the first character, line 1, column 1.
Scanner(source) == [pos |-> source, line |-> 1, col |-> 1]

\* *pos; an address past the mapped bytes cannot be read.
peek(mem, s) == IF s.pos <= Len(mem) THEN mem[s.pos] ELSE SEGV

\* advance() without "col = 1" after a newline: the column keeps counting.
advance_no_column_reset(mem, s) ==
    IF peek(mem, s) = NL
    THEN [pos |-> s.pos + 1, line |-> s.line + 1, col |-> s.col + 1]
    ELSE [pos |-> s.pos + 1, line |-> s.line,     col |-> s.col + 1]

\* Scanner::advance
advance(mem, s) ==
    IF peek(mem, s) = NL
    THEN [pos |-> s.pos + 1, line |-> s.line + 1, col |-> 1]
    ELSE [pos |-> s.pos + 1, line |-> s.line,     col |-> s.col + 1]

\* next(): advance, then peek.  The model returns the advanced scanner; the
\* character is peek of it.
next(mem, s) == advance(mem, s)

\* ------------------------------------------------------------------------
\* 32-bit and 64-bit integers
\* ------------------------------------------------------------------------
Half == 65536

\* The int holding a small non-negative number.
Int32(n) == <<n \div Half, n % Half>>

\* One step of decimal accumulation on a 64-bit magnitude: v * 10 + d.
\* Returns the four limbs and the carry out of the top limb.
MulAdd10(v, d) ==
    LET t0 == v[1] * 10 + d
        t1 == v[2] * 10 + (t0 \div Half)
        t2 == v[3] * 10 + (t1 \div Half)
        t3 == v[4] * 10 + (t2 \div Half)
    IN  [limbs |-> <<t0 % Half, t1 % Half, t2 % Half, t3 % Half>>,
         carry |-> t3 \div Half]

RECURSIVE stol_acc(_, _, _)
stol_acc(text, k, v) ==
    IF k > Len(text) THEN [range |-> TRUE, limbs |-> v]
    ELSE LET r == MulAdd10(v, CHOOSE d \in 0..9 : Printable[17 + d] = text[k])
         IN  IF r.carry > 0 \/ r.limbs[4] >= 32768
             THEN [range |-> FALSE, limbs |-> v]
             ELSE stol_acc(text, k + 1, r.limbs)

\* std::stol on a run of digits: the long value, or out_of_range when the
\* value does not fit a signed 64-bit long.
stol(text) == stol_acc(text, 1, <<0, 0, 0, 0>>)

\* int n = <long>: the low 32 bits.
LongToInt(limbs) == <<limbs[2], limbs[1]>>

\* <<quotient, remainder>> of an unsigned 32-bit magnitude divided by ten.
DivMod10(m) ==
    LET t == (m[1] % 10) * Half + m[2]
    IN  [q |-> <<m[1] \div 10, t \div 10>>, r |-> t % 10]

RECURSIVE MagDigits(_)
MagDigits(m) ==
    LET dm == DivMod10(m)
    IN  IF dm.q = <<0, 0>> THEN <<Printable[17 + dm.r]>>
        ELSE Append(MagDigits(dm.q), Printable[17 + dm.r])

\* Magnitude of a negative two's complement int.
Negated(n) ==
    IF n[2] = 0 THEN <<(Half - n[1]) % Half, 0>>
    ELSE <<Half - 1 - n[1], Half - n[2]>>

\* std::to_string(int): decimal digits, with a minus sign when negative.
int_to_string(n) ==
    IF n[1] >= 32768 THEN <<"-">> \o MagDigits(Negated(n)) ELSE MagDigits(n)

\* ------------------------------------------------------------------------
\* Tokens
\* ------------------------------------------------------------------------
\* TokenVal = variant<int, string>.  A string is a sequence of pieces: single
\* characters, or the text of a string literal of the program as one piece.
IntVal(n) == [alt |-> "int", i |-> n, str |-> <<>>]
StrVal(t) == [alt |-> "string", i |-> <<0, 0>>, str |-> t]

Token(name, value, line, column) ==
    [name |-> name, value |-> value, line |-> line, column |-> column]

\* Lexer::keywords
keywords ==
    { <<<<"e", "l", "s", "e">>,      "KEYWORD_ELSE">>,
      <<<<"i", "f">>,                "KEYWORD_IF">>,
      <<<<"p", "r", "i", "n", "t">>, "KEYWORD_PRINT">>,
      <<<<"p", "u", "t", "c">>,      "KEYWORD_PUTC">>,
      <<<<"w", "h", "i", "l", "e">>, "KEYWORD_WHILE">> }

\* ------------------------------------------------------------------------
\* Lexer
\* ------------------------------------------------------------------------
\* What one call of a scanning routine produces: the token it returns and
\* the Lexer's two scanners afterwards, or the fault that ends the process
\* ("segv": a read outside the mapped buffer; "length_error": the exception
\* thrown by the string constructor, which nothing catches).
Returned(tok, s, pre_state) ==
    [fault |-> "none", tok |-> tok, s |-> s, pre_state |-> pre_state]

Faulted(kind, s, pre_state) ==
    [fault |-> kind, tok |-> Token("ERROR", StrVal(<<>>), 0, 0),
     s |-> s, pre_state |-> pre_state]

\* A return after the last address read was `read`.
Result(mem, tok, s, pre_state, read) ==
    IF read > Len(mem) THEN Faulted("segv", s, pre_state)
    ELSE Returned(tok, s, pre_state)

\* string(28, ' ')
Pad28 == "                            "

\* error() without its closing "if (s.peek() != '\0') s.advance()".
error_noadvance(mem, s, pre_state, ostream_args) ==
    LET n == s.col - pre_state.col
    IN  IF peek(mem, s) = SEGV THEN Faulted("segv", s, pre_state)
        ELSE IF n < 0 \/ pre_state.pos + n - 1 > Len(mem)
             THEN Faulted("length_error", s, pre_state)
        ELSE LET code == SubSeq(mem, pre_state.pos, pre_state.pos + n - 1)
                 msg  == ostream_args \o <<NL, Pad28, "(">>
                         \o int_to_string(Int32(s.line)) \o <<", ">>
                         \o int_to_string(Int32(s.col)) \o <<"): ">> \o code
             IN  Returned(Token("ERROR", StrVal(msg), pre_state.line, pre_state.col),
                          s, pre_state)

error(mem, s, pre_state, ostream_args) ==
    LET n == s.col - pre_state.col
    IN  IF peek(mem, s) = SEGV THEN Faulted("segv", s, pre_state)
        ELSE IF n < 0 \/ pre_state.pos + n - 1 > Len(mem)
             THEN Faulted("length_error", s, pre_state)
        ELSE LET code == SubSeq(mem, pre_state.pos, pre_state.pos + n - 1)
                 msg  == ostream_args \o <<NL, Pad28, "(">>
                         \o int_to_string(Int32(s.line)) \o <<", ">>
                         \o int_to_string(Int32(s.col)) \o <<"): ">> \o code
                 s2   == IF peek(mem, s) # NUL THEN advance(mem, s) ELSE s
             IN  Returned(Token("ERROR", StrVal(msg), pre_state.line, pre_state.col),
                          s2, pre_state)

RECURSIVE skip_whitespace(_, _)
skip_whitespace(mem, s) ==
    IF isspace(peek(mem, s)) THEN skip_whitespace(mem, advance(mem, s)) ELSE s

\* simple_token with the line and the column in each other's place.
simple_token_swapped(name, pre_state) ==
    Token(name, IntVal(Int32(0)), pre_state.col, pre_state.line)

simple_token(name, pre_state) ==
    Token(name, IntVal(Int32(0)), pre_state.line, pre_state.col)

simply(mem, s, pre_state, name) ==
    Result(mem, simple_token(name, pre_state), advance(mem, s), pre_state, s.pos)

expect(mem, s, pre_state, expected, name) ==
    LET s1 == next(mem, s)
    IN  IF peek(mem, s1) = expected THEN simply(mem, s1, pre_state, name)
        ELSE error(mem, s1, pre_state,
                   <<"Unrecognized character '", peek(mem, s1), "'">>)

follow(mem, s, pre_state, expected, ifyes, ifno) ==
    LET s1 == next(mem, s)
    IN  IF peek(mem, s1) = expected THEN simply(mem, s1, pre_state, ifyes)
        ELSE Result(mem, simple_token(ifno, pre_state), s1, pre_state, s1.pos)

\* The tail of char_lit, from "if (s.next() != '\'')" on, n being the
\* character of the constant.
char_lit_close(mem, s, pre_state, n) ==
    LET s1 == next(mem, s)
    IN  IF peek(mem, s1) # SQ
        THEN error(mem, s1, pre_state, <<"Multi-character constant">>)
        ELSE Result(mem, Token("INTEGER", IntVal(Int32(Ord(n))),
                               pre_state.line, pre_state.col),
                    advance(mem, s1), pre_state, s1.pos)

char_lit(mem, s, pre_state) ==
    LET s1 == next(mem, s)
        n  == peek(mem, s1)
    IN  IF n = SQ THEN error(mem, s1, pre_state, <<"Empty character constant">>)
        ELSE IF n = BSL
        THEN LET s2 == next(mem, s1)
                 c  == peek(mem, s2)
             IN  CASE c = "n" -> char_lit_close(mem, s2, pre_state, NL)
                   [] c = BSL -> char_lit_close(mem, s2, pre_state, BSL)
                   [] OTHER   -> error(mem, s2, pre_state,
                                       <<"Unknown escape sequence \\", c>>)
        ELSE char_lit_close(mem, s1, pre_state, n)

\* The loop of string_lit, entered at its condition "s.next() != '\"'".
RECURSIVE string_lit_loop(_, _, _, _)
string_lit_loop(mem, s, pre_state, text) ==
    LET s1 == next(mem, s)
        c  == peek(mem, s1)
    IN  CASE c = DQ ->
               Result(mem, Token("STRING", StrVal(text), pre_state.line, pre_state.col),
                      advance(mem, s1), pre_state, s1.pos)
          [] c = BSL ->
               LET s2 == next(mem, s1)
                   e  == peek(mem, s2)
               IN  CASE e = "n" -> string_lit_loop(mem, s2, pre_state, Append(text, NL))
                     [] e = BSL -> string_lit_loop(mem, s2, pre_state, Append(text, BSL))
                     [] OTHER   -> error(mem, s2, pre_state,
                                         <<"Unknown escape sequence \\", e>>)
          [] c = NL ->
               error(mem, s1, pre_state,
                     <<"End-of-line while scanning string literal. Closing string character not found before end-of-line.">>)
          [] c = NUL ->
               error(mem, s1, pre_state,
                     <<"End-of-file while scanning string literal. Closing string character not found.">>)
          [] c = SEGV -> Faulted("segv", s1, pre_state)
          [] OTHER -> string_lit_loop(mem, s1, pre_state, Append(text, c))

string_lit(mem, s, pre_state) == string_lit_loop(mem, s, pre_state, <<>>)

\* The loop of identifier continuing on is_id_start instead of is_id_end.
RECURSIVE identifier_loop_id_start(_, _, _)
identifier_loop_id_start(mem, s, text) ==
    LET s1 == next(mem, s)
    IN  IF is_id_start(peek(mem, s1))
        THEN identifier_loop_id_start(mem, s1, Append(text, peek(mem, s1)))
        ELSE [s |-> s1, text |-> text]

\* The loop of identifier: "while (is_id_end(s.next())) text += s.peek()".
RECURSIVE identifier_loop(_, _, _)
identifier_loop(mem, s, text) ==
    LET s1 == next(mem, s)
    IN  IF is_id_end(peek(mem, s1))
        THEN identifier_loop(mem, s1, Append(text, peek(mem, s1)))
        ELSE [s |-> s1, text |-> text]

identifier(mem, s, pre_state) ==
    LET r == identifier_loop(mem, s, <<peek(mem, s)>>)
    IN  IF \E kw \in keywords : kw[1] = r.text
        THEN Result(mem, Token((CHOOSE kw \in keywords : kw[1] = r.text)[2],
                               IntVal(Int32(0)), pre_state.line, pre_state.col),
                    r.s, pre_state, r.s.pos)
        ELSE Result(mem, Token("IDENTIFIER", StrVal(r.text),
                               pre_state.line, pre_state.col),
                    r.s, pre_state, r.s.pos)

\* The loop of integer_lit: "while (is_digit(s.next())) text += s.peek()".
RECURSIVE integer_lit_loop(_, _, _)
integer_lit_loop(mem, s, text) ==
    LET s1 == next(mem, s)
    IN  IF is_digit(peek(mem, s1))
        THEN integer_lit_loop(mem, s1, Append(text, peek(mem, s1)))
        ELSE [s |-> s1, text |-> text]

integer_lit(mem, s, pre_state) ==
    LET r == integer_lit_loop(mem, s, <<peek(mem, s)>>)
        n == stol(r.text)
    IN  IF is_id_start(peek(mem, r.s))
        THEN error(mem, r.s, pre_state,
                   <<"Invalid number. Starts like a number, but ends in non-numeric characters.">>)
        ELSE IF ~n.range
        THEN error(mem, r.s, pre_state, <<"Number exceeds maximum value">>)
        ELSE Result(mem, Token("INTEGER", IntVal(LongToInt(n.limbs)),
                               pre_state.line, pre_state.col),
                    r.s, pre_state, r.s.pos)

RECURSIVE next_token(_, _)
RECURSIVE comment_loop(_, _, _)

\* The loop of divide_or_comment with the snapshot kept across the recursive
\* call: the token after the comment is placed at the comment's opener.
RECURSIVE comment_loop_keep_snapshot(_, _, _)
comment_loop_keep_snapshot(mem, s, pre_state) ==
    LET s1 == next(mem, s)
        c  == peek(mem, s1)
    IN  CASE c = NUL ->
               error(mem, s1, pre_state,
                     <<"End-of-file in comment. Closing comment characters not found.">>)
          [] c = SEGV -> Faulted("segv", s1, pre_state)
          [] c = "*" ->
               LET s2 == next(mem, s1)
               IN  IF peek(mem, s2) = "/"
                   THEN LET r == next_token(mem, [s |-> advance(mem, s2),
                                                  pre_state |-> pre_state])
                        IN  [r EXCEPT !.tok.line = pre_state.line,
                                      !.tok.column = pre_state.col,
                                      !.pre_state = pre_state]
                   ELSE comment_loop_keep_snapshot(mem, s2, pre_state)
          [] OTHER -> comment_loop_keep_snapshot(mem, s1, pre_state)

\* The loop of divide_or_comment, entered at its condition
\* "s.next() != '\0'".
comment_loop(mem, s, pre_state) ==
    LET s1 == next(mem, s)
        c  == peek(mem, s1)
    IN  CASE c = NUL ->
               error(mem, s1, pre_state,
                     <<"End-of-file in comment. Closing comment characters not found.">>)
          [] c = SEGV -> Faulted("segv", s1, pre_state)
          [] c = "*" ->
               LET s2 == next(mem, s1)
               IN  IF peek(mem, s2) = "/"
                   THEN next_token(mem, [s |-> advance(mem, s2), pre_state |-> pre_state])
                   ELSE comment_loop(mem, s2, pre_state)
          [] OTHER -> comment_loop(mem, s1, pre_state)

divide_or_comment(mem, s, pre_state) ==
    LET s1 == next(mem, s)
    IN  IF peek(mem, s1) # "*"
        THEN Result(mem, simple_token("OP_DIVIDE", pre_state), s1, pre_state, s1.pos)
        ELSE comment_loop(mem, s1, pre_state)

\* next_token without "pre_state = s": the snapshot is never retaken.
next_token_stale_pre_state(mem, lx) ==
    LET s  == skip_whitespace(mem, lx.s)
        ps == lx.pre_state
        c  == peek(mem, s)
    IN  CASE c = "*" -> simply(mem, s, ps, "OP_MULTIPLY")
          [] c = "%" -> simply(mem, s, ps, "OP_MOD")
          [] c = "+" -> simply(mem, s, ps, "OP_ADD")
          [] c = "-" -> simply(mem, s, ps, "OP_SUBTRACT")
          [] c = "{" -> simply(mem, s, ps, "LEFTBRACE")
          [] c = "}" -> simply(mem, s, ps, "RIGHTBRACE")
          [] c = "(" -> simply(mem, s, ps, "LEFTPAREN")
          [] c = ")" -> simply(mem, s, ps, "RIGHTPAREN")
          [] c = ";" -> simply(mem, s, ps, "SEMICOLON")
          [] c = "," -> simply(mem, s, ps, "COMMA")
          [] c = "&" -> expect(mem, s, ps, "&", "OP_AND")
          [] c = "|" -> expect(mem, s, ps, "|", "OP_OR")
          [] c = "<" -> follow(mem, s, ps, "=", "OP_LESSEQUAL", "OP_LESS")
          [] c = ">" -> follow(mem, s, ps, "=", "OP_GREATEREQUAL", "OP_GREATER")
          [] c = "=" -> follow(mem, s, ps, "=", "OP_EQUAL", "OP_ASSIGN")
          [] c = "!" -> follow(mem, s, ps, "=", "OP_NOTEQUAL", "OP_NOT")
          [] c = "/" -> divide_or_comment(mem, s, ps)
          [] c = SQ  -> char_lit(mem, s, ps)
          [] c = DQ  -> string_lit(mem, s, ps)
          [] c = NUL -> Result(mem, simple_token("END_OF_INPUT", ps), s, ps, s.pos)
          [] OTHER   ->
               IF is_id_start(c) THEN identifier(mem, s, ps)
               ELSE IF is_digit(c) THEN integer_lit(mem, s, ps)
               ELSE error(mem, s, ps, <<"Unrecognized character '", c, "'">>)

\* Lexer::next_token on the Lexer lx = [s, pre_state].
next_token(mem, lx) ==
    LET s  == skip_whitespace(mem, lx.s)
        ps == s
        c  == peek(mem, s)
    IN  CASE c = "*" -> simply(mem, s, ps, "OP_MULTIPLY")
          [] c = "%" -> simply(mem, s, ps, "OP_MOD")
          [] c = "+" -> simply(mem, s, ps, "OP_ADD")
          [] c = "-" -> simply(mem, s, ps, "OP_SUBTRACT")
          [] c = "{" -> simply(mem, s, ps, "LEFTBRACE")
          [] c = "}" -> simply(mem, s, ps, "RIGHTBRACE")
          [] c = "(" -> simply(mem, s, ps, "LEFTPAREN")
          [] c = ")" -> simply(mem, s, ps, "RIGHTPAREN")
          [] c = ";" -> simply(mem, s, ps, "SEMICOLON")
          [] c = "," -> simply(mem, s, ps, "COMMA")
          [] c = "&" -> expect(mem, s, ps, "&", "OP_AND")
          [] c = "|" -> expect(mem, s, ps, "|", "OP_OR")
          [] c = "<" -> follow(mem, s, ps, "=", "OP_LESSEQUAL", "OP_LESS")
          [] c = ">" -> follow(mem, s, ps, "=", "OP_GREATEREQUAL", "OP_GREATER")
          [] c = "=" -> follow(mem, s, ps, "=", "OP_EQUAL", "OP_ASSIGN")
          [] c = "!" -> follow(mem, s, ps, "=", "OP_NOTEQUAL", "OP_NOT")
          [] c = "/" -> divide_or_comment(mem, s, ps)
          [] c = SQ  -> char_lit(mem, s, ps)
          [] c = DQ  -> string_lit(mem, s, ps)
          [] c = NUL -> Result(mem, simple_token("END_OF_INPUT", ps), s, ps, s.pos)
          [] OTHER   ->
               IF is_id_start(c) THEN identifier(mem, s, ps)
               ELSE IF is_digit(c) THEN integer_lit(mem, s, ps)
               ELSE error(mem, s, ps, <<"Unrecognized character '", c, "'">>)

\* has_more testing for the end of the buffer instead of the sentinel.
has_more_before_end(mem, lx) == lx.s.pos <= Len(mem)

\* Lexer::has_more
has_more(mem, lx) == peek(mem, lx.s) # NUL

\* ------------------------------------------------------------------------
\* Rendering
\* ------------------------------------------------------------------------
\* enum class TokenName, in declaration order.
TokenName ==
    <<"OP_MULTIPLY", "OP_DIVIDE", "OP_MOD", "OP_ADD", "OP_SUBTRACT", "OP_NEGATE",
      "OP_LESS", "OP_LESSEQUAL", "OP_GREATER", "OP_GREATEREQUAL", "OP_EQUAL", "OP_NOTEQUAL",
      "OP_NOT", "OP_ASSIGN", "OP_AND", "OP_OR",
      "LEFTPAREN", "RIGHTPAREN", "LEFTBRACE", "RIGHTBRACE", "SEMICOLON", "COMMA",
      "KEYWORD_IF", "KEYWORD_ELSE", "KEYWORD_WHILE", "KEYWORD_PRINT", "KEYWORD_PUTC",
      "IDENTIFIER", "INTEGER", "STRING",
      "END_OF_INPUT", "ERROR">>

to_cstring(name) ==
    LET s == <<"Op_multiply", "Op_divide", "Op_mod", "Op_add", "Op_subtract", "Op_negate",
               "Op_less", "Op_lessequal", "Op_greater", "Op_greaterequal", "Op_equal", "Op_notequal",
               "Op_not", "Op_assign", "Op_and", "Op_or",
               "LeftParen", "RightParen", "LeftBrace", "RightBrace", "Semicolon", "Comma",
               "Keyword_if", "Keyword_else", "Keyword_while", "Keyword_print", "Keyword_putc">>
    IN  s[CHOOSE k \in 1..Len(TokenName) : TokenName[k] = name]

\* The loop of sanitize without its branch for the backslash.
RECURSIVE sanitize_loop_newline_only(_, _)
sanitize_loop_newline_only(s, i) ==
    IF i > Len(s) THEN s
    ELSE IF s[i] = NL
    THEN sanitize_loop_newline_only(
             SubSeq(s, 1, i - 1) \o <<BSL, "n">> \o SubSeq(s, i + 1, Len(s)), i + 2)
    ELSE sanitize_loop_newline_only(s, i + 1)

\* The loop of sanitize; i is the 1-based index of the character examined.
RECURSIVE sanitize_loop(_, _)
sanitize_loop(s, i) ==
    IF i > Len(s) THEN s
    ELSE IF s[i] = NL
    THEN sanitize_loop(SubSeq(s, 1, i - 1) \o <<BSL, "n">> \o SubSeq(s, i + 1, Len(s)), i + 2)
    ELSE IF s[i] = BSL
    THEN sanitize_loop(SubSeq(s, 1, i - 1) \o <<BSL, BSL>> \o SubSeq(s, i + 1, Len(s)), i + 2)
    ELSE sanitize_loop(s, i + 1)

sanitize(s) == sanitize_loop(s, 1)

\* to_string (TokenVal)
val_to_string(v) == IF v.alt = "int" THEN int_to_string(v.i) ELSE v.str

\* out << setw(2) << n
setw2(n) ==
    LET d == int_to_string(Int32(n))
    IN  IF Len(d) < 2 THEN <<" ">> \o d ELSE d

\* to_string (Token): one line of the table.
token_to_string(t) ==
    setw2(t.line) \o <<"   ">> \o setw2(t.column) \o <<"   ">> \o
    CASE t.name = "STRING" ->
           <<"String            \"">> \o sanitize(val_to_string(t.value)) \o <<DQ, NL>>
      [] t.name = "INTEGER" ->
           <<"Integer           ">> \o val_to_string(t.value) \o <<NL>>
      [] t.name = "IDENTIFIER" ->
           <<"Identifier        ">> \o val_to_string(t.value) \o <<NL>>
      [] t.name = "ERROR" ->
           <<"Error             ">> \o val_to_string(t.value) \o <<NL>>
      [] t.name = "END_OF_INPUT" -> <<"End_of_input\n">>
      [] OTHER -> <<to_cstring(t.name), NL>>

\* list_tokens: the header, then one line per token; kept as a sequence of
\* lines.
list_tokens(toks) ==
    <<<<"Location  Token name        Value\n">>,
      <<"--------------------------------------\n">>>>
    \o [k \in 1..Len(toks) |-> token_to_string(toks[k])]

\* ------------------------------------------------------------------------
\* Inputs
\* ------------------------------------------------------------------------
\* Characters of the inputs enumerated exhaustively.
ScanAlphabet == {SQ, DQ, BSL, "/", "*", "&", "=", "a", "n", "1", " ", NL}

\* Bytes that may be found behind the terminating NUL.
GarbageAlphabet == {NUL, SQ, "*", "/", "a"}

Strings(A, n) == UNION {[1..k -> A] : k \in 0..n}

\* Longer programs, lexed in addition to the exhaustive ones.
Programs ==
    { <<"1", " ", "+", " ", "2", ";">>,
      <<"1", " ", "+", " ", "2", ";", " ">>,
      <<"&", "x">>,
      <<"|", "x">>,
      <<"&", "&", "x">>,
      <<"1", "2", "3", "a", "b", "c">>,
      <<"1", "2", "3", " ", "a", "b", "c">>,
      <<"/", "*", " ", "u", "n", "t", "e", "r", "m", "i", "n", "a", "t", "e", "d">>,
      <<" ", " ", "/", "*", " ", "a", NL, "b">>,
      <<"/", "*", " ", "*">>,
      <<"/", "*", " ", "a", " ", "*", "/", " ", "x">>,
      <<"/", "*", " ", "a", " ", "*", "*", "/", " ", "x">>,
      <<"x", NL, " ", "/", "*", "a", "*", "/", NL, "y">>,
      <<"i", "f">>, <<"e", "l", "s", "e">>, <<"w", "h", "i", "l", "e">>,
      <<"p", "r", "i", "n", "t">>, <<"p", "u", "t", "c">>,
      <<"i", "f", "f", "y">>, <<"i", "f", "1">>, <<"_", "i", "f">>,
      <<"W", "h", "i", "l", "e">>,
      <<"i", "f", "(", "x", "<", "=", "1", ")", "{", "}">>,
      <<"0", "0", "7">>,
      <<"4", "2">>,
      <<"2", "1", "4", "7", "4", "8", "3", "6", "4", "7">>,
      <<"2", "1", "4", "7", "4", "8", "3", "6", "4", "8">>,
      <<"4", "2", "9", "4", "9", "6", "7", "2", "9", "7">>,
      <<"9", "2", "2", "3", "3", "7", "2", "0", "3", "6", "8", "5", "4", "7", "7", "5", "8", "0", "8">>,
      <<DQ, "a", BSL, "n", "b", DQ>>,
      <<DQ, BSL, BSL, "n", DQ, ";">>,
      <<DQ, "a", BSL, "q", "b", DQ>>,
      <<SQ, "a", "b", SQ>>,
      <<SQ, BSL, "n", SQ>>,
      <<SQ, BSL, BSL, SQ>>,
      <<"#", "x", "!", "=", "y", ">", "%", "-", ",">> }

Inputs == Strings(ScanAlphabet, MaxLen) \cup Programs

GarbageSeqs == Strings(GarbageAlphabet, MaxGarbage)

\* ------------------------------------------------------------------------
\* The driver: main's lambda run on one input
\* ------------------------------------------------------------------------
VARIABLES
    input,      \* the program text handed to the lambda
    mem,        \* the readable bytes from input.data() on: the text, its NUL,
                \* and the bytes behind it once the program has read there
    overran,    \* whether the bytes behind the NUL have been read
    lexer,      \* the Lexer: [s, pre_state]
    tokens,     \* vector<Token> tokens
    pc,         \* "loop", "done", "crashed" (SIGSEGV), "aborted" (terminate)
    output      \* what the lambda returns

vars == <<input, mem, overran, lexer, tokens, pc, output>>

\* Lexer lexer {input}
Lexer(source) == [s |-> Scanner(source), pre_state |-> Scanner(source)]

Init ==
    /\ input \in Inputs
    /\ mem = input \o <<NUL>>
    /\ overran = FALSE
    /\ lexer = Lexer(1)
    /\ tokens = <<>>
    /\ pc = "loop"
    /\ output = <<>>

\* The contents the bytes behind the NUL can turn out to have when the call
\* about to be made reads them for the first time.
Behind ==
    IF ~overran /\ next_token(mem, lexer).fault = "segv" THEN GarbageSeqs ELSE {<<>>}

\* while (lexer.has_more()) tokens.push_back(lexer.next_token());
\* one iteration in which next_token returns.
LexToken ==
    /\ pc = "loop"
    /\ peek(mem, lexer.s) # SEGV
    /\ has_more(mem, lexer)
    /\ \E g \in Behind :
         LET m == mem \o g
             r == next_token(m, lexer)
         IN  /\ r.fault = "none"
             /\ mem' = m
             /\ overran' = (overran \/ Behind # {<<>>})
             /\ lexer' = [s |-> r.s, pre_state |-> r.pre_state]
             /\ tokens' = Append(tokens, r.tok)
    /\ UNCHANGED <<input, pc, output>>

\* One iteration in which next_token does not return: the process dies in it.
LexFault ==
    /\ pc = "loop"
    /\ peek(mem, lexer.s) # SEGV
    /\ has_more(mem, lexer)
    /\ \E g \in Behind :
         LET m == mem \o g
             r == next_token(m, lexer)
         IN  /\ r.fault # "none"
             /\ mem' = m
             /\ overran' = (overran \/ Behind # {<<>>})
             /\ pc' = IF r.fault = "segv" THEN "crashed" ELSE "aborted"
    /\ UNCHANGED <<input, lexer, tokens, output>>

\* has_more reads outside the mapped buffer.
HasMoreFault ==
    /\ pc = "loop"
    /\ peek(mem, lexer.s) = SEGV
    /\ pc' = "crashed"
    /\ UNCHANGED <<input, mem, overran, lexer, tokens, output>>

\* has_more is false: return list_tokens(tokens).
Finish ==
    /\ pc = "loop"
    /\ peek(mem, lexer.s) # SEGV
    /\ ~has_more(mem, lexer)
    /\ pc' = "done"
    /\ output' = list_tokens(tokens)
    /\ UNCHANGED <<input, mem, overran, lexer, tokens>>

Next == LexToken \/ LexFault \/ HasMoreFault \/ Finish

Spec == Init /\ [][Next]_vars

\* ------------------------------------------------------------------------
\* Properties
\* ------------------------------------------------------------------------
Last(seq) == seq[Len(seq)]

\* Index of the terminating NUL of the input.
Sentinel == Len(input) + 1

\* What the last returned call of next_token scanned: from pre_state up to,
\* not including, the cursor.
Scanned == SubSeq(mem, lexer.pre_state.pos, lexer.s.pos - 1)

Summary(toks) == [k \in 1..Len(toks) |-> <<toks[k].name, toks[k].line, toks[k].column>>]

\* C1: the cursor never moves beyond the index of the terminating sentinel,
\* and nothing behind the sentinel is ever read.
C1_CursorWithinBuffer ==
    /\ lexer.s.pos <= Sentinel
    /\ ~overran

\* C2: a call of next_token that returns leaves the cursor at a strictly
\* greater position than before the call, or returns END_OF_INPUT.
C2_NextTokenAdvances ==
    [][tokens' # tokens =>
         \/ lexer'.s.pos > lexer.s.pos
         \/ Last(tokens').name = "END_OF_INPUT"]_vars

\* An ERROR token returned with the cursor on the sentinel, one character
\* after the token's start: error() had nothing left to skip.
C2_Witness ==
    /\ tokens # <<>>
    /\ Last(tokens).name = "ERROR"
    /\ lexer.s.pos = lexer.pre_state.pos + 1
    /\ lexer.s.pos = Sentinel

\* C3: the driver loop terminates by has_more becoming false after finitely
\* many calls: the run never stops inside the loop, and once the loop is left
\* the cursor is on the sentinel.
C3_DriverTerminates ==
    /\ pc \in {"loop", "done"}
    /\ pc = "done" => ~has_more(mem, lexer)

OnePlusTwo == <<"1", " ", "+", " ", "2", ";">>

\* C4: the collected token sequence ends with exactly one END_OF_INPUT token,
\* located just after the last consumed character, and END_OF_INPUT appears
\* nowhere else; "1 + 2;" yields INTEGER(1)@(1,1), OP_ADD@(1,3),
\* INTEGER(2)@(1,5), SEMICOLON@(1,6), END_OF_INPUT@(1,7).
C4_EndsWithEndOfInput ==
    pc = "done" =>
      /\ tokens # <<>>
      /\ Last(tokens).name = "END_OF_INPUT"
      /\ Last(tokens).line = lexer.s.line
      /\ Last(tokens).column = lexer.s.col
      /\ \A k \in 1..(Len(tokens) - 1) : tokens[k].name # "END_OF_INPUT"
      /\ input = OnePlusTwo =>
           /\ Summary(tokens) = << <<"INTEGER", 1, 1>>, <<"OP_ADD", 1, 3>>,
                                   <<"INTEGER", 1, 5>>, <<"SEMICOLON", 1, 6>>,
                                   <<"END_OF_INPUT", 1, 7>> >>
           /\ val_to_string(tokens[1].value) = <<"1">>
           /\ val_to_string(tokens[3].value) = <<"2">>

\* C5: a single & (or |) not followed by the same character yields one ERROR
\* token and the character that follows it is not consumed: it starts the
\* next token; "&x" yields ERROR followed by IDENTIFIER(x).
C5_SingleAmpersand ==
    /\ ( /\ tokens # <<>>
         /\ mem[lexer.pre_state.pos] \in {"&", "|"}
         /\ mem[lexer.pre_state.pos + 1] # mem[lexer.pre_state.pos] )
       => /\ Last(tokens).name = "ERROR"
          /\ lexer.s.pos = lexer.pre_state.pos + 1
    /\ (pc = "done" /\ input = <<"&", "x">>)
       => /\ Len(tokens) >= 2
          /\ tokens[1].name = "ERROR"
          /\ tokens[2].name = "IDENTIFIER"
          /\ tokens[2].value = StrVal(<<"x">>)

\* First index at or after p whose character is not a digit.
RECURSIVE DigitRunEnd(_, _)
DigitRunEnd(m, p) ==
    IF p <= Len(m) /\ m[p] \in Digits THEN DigitRunEnd(m, p + 1) ELSE p

\* First index at or after p whose character is neither alphanumeric nor _.
RECURSIVE WordEnd(_, _)
WordEnd(m, p) ==
    IF p <= Len(m) /\ m[p] \in (Digits \cup Lower \cup Upper \cup {"_"})
    THEN WordEnd(m, p + 1) ELSE p

\* C6: a digit run immediately followed by identifier characters yields one
\* ERROR token, and that call consumes the digits and all the identifier
\* characters after them: nothing of the run is left for a further token.
C6_InvalidNumberConsumed ==
    ( /\ tokens # <<>>
      /\ mem[lexer.pre_state.pos] \in Digits
      /\ is_id_start(peek(mem, [pos |-> DigitRunEnd(mem, lexer.pre_state.pos)])) )
    => /\ Last(tokens).name = "ERROR"
       /\ lexer.s.pos = WordEnd(mem, lexer.pre_state.pos)

\* The cursor, after whitespace, is at a comment opener of the input that no
\* closer follows.
AtUnterminatedComment ==
    LET p == skip_whitespace(mem, lexer.s).pos
    IN  /\ p + 1 <= Len(input)
        /\ input[p] = "/"
        /\ input[p + 1] = "*"
        /\ ~ \E q \in (p + 2)..(Len(input) - 1) : input[q] = "*" /\ input[q + 1] = "/"

\* C7: lexing a comment that is never closed yields exactly one ERROR token
\* reporting end-of-file in comment, the run does not abort, and the cursor
\* is left on the sentinel so that nothing but END_OF_INPUT can follow.
C7_UnterminatedComment ==
    [][(pc = "loop" /\ AtUnterminatedComment) =>
         /\ pc' = "loop"
         /\ Len(tokens') = Len(tokens) + 1
         /\ Last(tokens').name = "ERROR"
         /\ Last(tokens').value.str[1]
              = "End-of-file in comment. Closing comment characters not found."
         /\ lexer'.s.pos = Sentinel]_vars

\* The kind the five reserved spellings stand for; IDENTIFIER for the rest.
KindOfWord(w) ==
    CASE w = <<"i", "f">>                -> "KEYWORD_IF"
      [] w = <<"e", "l", "s", "e">>      -> "KEYWORD_ELSE"
      [] w = <<"w", "h", "i", "l", "e">> -> "KEYWORD_WHILE"
      [] w = <<"p", "r", "i", "n", "t">> -> "KEYWORD_PRINT"
      [] w = <<"p", "u", "t", "c">>      -> "KEYWORD_PUTC"
      [] OTHER                           -> "IDENTIFIER"

\* C8: a token that starts at an identifier-start character covers the
\* maximal run of alphanumerics/underscores; it is the keyword kind when the
\* run is exactly if, else, while, print or putc, and otherwise IDENTIFIER
\* carrying the full text of the run.
C8_KeywordOrIdentifier ==
    ( /\ tokens # <<>>
      /\ is_id_start(mem[lexer.pre_state.pos]) )
    => LET e   == WordEnd(mem, lexer.pre_state.pos)
           run == SubSeq(mem, lexer.pre_state.pos, e - 1)
       IN  /\ lexer.s.pos = e
           /\ Last(tokens).name = KindOfWord(run)
           /\ KindOfWord(run) = "IDENTIFIER" => Last(tokens).value = StrVal(run)

\* The identifier "if1", whose first two characters spell a keyword.
C8_Witness ==
    /\ tokens # <<>>
    /\ Last(tokens).name = "IDENTIFIER"
    /\ Scanned = <<"i", "f", "1">>

RECURSIVE StripZeros(_)
StripZeros(d) ==
    IF Len(d) > 1 /\ d[1] = "0" THEN StripZeros(Tail(d)) ELSE d

\* C9: an INTEGER token lexed from a digit run renders as the digits of the
\* run with leading zeros removed.
C9_IntegerRoundTrip ==
    ( /\ tokens # <<>>
      /\ mem[lexer.pre_state.pos] \in Digits
      /\ Last(tokens).name = "INTEGER" )
    => val_to_string(Last(tokens).value) = StripZeros(Scanned)

\* Index of the closing quote of the well-formed string literal whose body
\* starts at p (ordinary characters and the escapes \n and \\, no raw
\* newline); 0 when the literal is not well formed.
RECURSIVE StringClose(_, _)
StringClose(m, p) ==
    IF p > Len(m) THEN 0
    ELSE CASE m[p] = DQ -> p
           [] m[p] = BSL ->
                IF p + 1 <= Len(m) /\ m[p + 1] \in {"n", BSL}
                THEN StringClose(m, p + 2) ELSE 0
           [] m[p] \in {NL, NUL} -> 0
           [] OTHER -> StringClose(m, p + 1)

\* The body m[p..q] with each escape resolved to one character.
RECURSIVE Resolved(_, _, _)
Resolved(m, p, q) ==
    IF p > q THEN <<>>
    ELSE IF m[p] = BSL
    THEN <<IF m[p + 1] = "n" THEN NL ELSE BSL>> \o Resolved(m, p + 2, q)
    ELSE <<m[p]>> \o Resolved(m, p + 1, q)

\* C10: a well-formed string literal yields a single STRING token whose
\* value is the body with each escape resolved, and the rendered line shows,
\* between quotes, the source literal character for character.
C10_StringRoundTrip ==
    ( /\ tokens # <<>>
      /\ mem[lexer.pre_state.pos] = DQ
      /\ StringClose(mem, lexer.pre_state.pos + 1) # 0 )
    => LET close == StringClose(mem, lexer.pre_state.pos + 1)
           tok   == Last(tokens)
       IN  /\ tok.name = "STRING"
           /\ lexer.s.pos = close + 1
           /\ tok.value = StrVal(Resolved(mem, lexer.pre_state.pos + 1, close - 1))
           /\ token_to_string(tok)
                = setw2(tok.line) \o <<"   ">> \o setw2(tok.column) \o <<"   ">>
                  \o <<"String            \"">> \o SubSeq(mem, lexer.pre_state.pos + 1, close)
                  \o <<NL>>

\* The literal "\\n" followed by ';': an escaped backslash, then the letter n.
C10_Witness ==
    /\ tokens # <<>>
    /\ Last(tokens).name = "STRING"
    /\ Scanned = <<DQ, BSL, BSL, "n", DQ>>
    /\ Last(tokens).value.str = <<BSL, "n">>

\* ------------------------------------------------------------------------
\* Positions
\* ------------------------------------------------------------------------
\* Line and column of index p of m, counted from the text itself.
LineAt(m, p) == 1 + Cardinality({k \in 1..(p - 1) : m[k] = NL})

ColAt(m, p) ==
    LET nls == {k \in 1..(p - 1) : m[k] = NL}
    IN  IF nls = {} THEN p ELSE p - (CHOOSE k \in nls : \A j \in nls : j <= k)

\* The characters a token of the given kind can begin with.
StartChars(name) ==
    CASE name = "OP_MULTIPLY" -> {"*"}
      [] name = "OP_DIVIDE" -> {"/"}
      [] name = "OP_MOD" -> {"%"}
      [] name = "OP_ADD" -> {"+"}
      [] name = "OP_SUBTRACT" -> {"-"}
      [] name \in {"OP_LESS", "OP_LESSEQUAL"} -> {"<"}
      [] name \in {"OP_GREATER", "OP_GREATEREQUAL"} -> {">"}
      [] name \in {"OP_EQUAL", "OP_ASSIGN"} -> {"="}
      [] name \in {"OP_NOTEQUAL", "OP_NOT"} -> {"!"}
      [] name = "OP_AND" -> {"&"}
      [] name = "OP_OR" -> {"|"}
      [] name = "LEFTPAREN" -> {"("}
      [] name = "RIGHTPAREN" -> {")"}
      [] name = "LEFTBRACE" -> {"{"}
      [] name = "RIGHTBRACE" -> {"}"}
      [] name = "SEMICOLON" -> {";"}
      [] name = "COMMA" -> {","}
      [] name = "KEYWORD_IF" -> {"i"}
      [] name = "KEYWORD_ELSE" -> {"e"}
      [] name = "KEYWORD_WHILE" -> {"w"}
      [] name \in {"KEYWORD_PRINT", "KEYWORD_PUTC"} -> {"p"}
      [] name = "IDENTIFIER" -> Lower \cup Upper \cup {"_"}
      [] name = "INTEGER" -> Digits \cup {SQ}
      [] name = "STRING" -> {DQ}
      [] name = "END_OF_INPUT" -> {NUL}
      [] OTHER -> {NUL, NL, TAB, CR, FF, VT} \cup {Printable[k] : k \in 1..Len(Printable)}

\* Last index at or before p whose character is not whitespace (0 if none).
RECURSIVE BackOverBlanks(_, _)
BackOverBlanks(m, p) ==
    IF p >= 1 /\ isspace(m[p]) THEN BackOverBlanks(m, p - 1) ELSE p

\* C11: every returned token (valid or ERROR) carries the line and column of
\* its own first character, counted as 1 + the newlines before it and 1 + the
\* characters since the last newline; the whitespace skipped before the token
\* (and any comment before it) is not part of it.
C11_TokenPosition ==
    [][tokens' # tokens =>
         LET p0 == skip_whitespace(mem', lexer.s).pos
             p  == lexer'.pre_state.pos
             t  == Last(tokens')
         IN  /\ t.line = LineAt(mem', p)
             /\ t.column = ColAt(mem', p)
             /\ mem'[p] \in StartChars(t.name)
             /\ ~isspace(mem'[p])
             /\ \/ p = p0
                \/ /\ p >= p0 + 4
                   /\ mem'[p0] = "/" /\ mem'[p0 + 1] = "*"
                   /\ LET b == BackOverBlanks(mem', p - 1)
                      IN  mem'[b] = "/" /\ mem'[b - 1] = "*"]_vars

\* An identifier on the second line, behind a blank: its position is (2, 2).
C11_Witness ==
    /\ tokens # <<>>
    /\ Last(tokens).name = "IDENTIFIER"
    /\ Last(tokens).line = 2
    /\ Last(tokens).column = 2
    /\ mem[lexer.pre_state.pos - 1] = " "

\* Token a starts before token b in the text.
StartsBefore(a, b) ==
    \/ a.line < b.line
    \/ a.line = b.line /\ a.column < b.column

\* C12: the collected tokens are in source order: each token starts at or
\* after the end of the characters consumed for the token before it, and the
\* (line, column) starts of consecutive tokens are strictly increasing, valid
\* and ERROR tokens alike.
C12_SourceOrder ==
    [][tokens' # tokens =>
         /\ lexer'.pre_state.pos >= lexer.s.pos
         /\ tokens # <<>> =>
              /\ lexer'.pre_state.pos > lexer.pre_state.pos
              /\ StartsBefore(Last(tokens), Last(tokens'))
         /\ \A k \in 1..(Len(tokens') - 1) : StartsBefore(tokens'[k], tokens'[k + 1])]_vars

\* An ERROR token followed by a valid token on a later line.
C12_Witness ==
    /\ Len(tokens) >= 2
    /\ tokens[Len(tokens) - 1].name = "ERROR"
    /\ Last(tokens).name = "IDENTIFIER"
    /\ Last(tokens).line > tokens[Len(tokens) - 1].line

\* Index of the '*' of the first closer */ of the input at or after p; 0 when
\* there is none.
RECURSIVE FirstCloser(_)
FirstCloser(p) ==
    IF p + 1 > Len(input) THEN 0
    ELSE IF input[p] = "*" /\ input[p + 1] = "/" THEN p
    ELSE FirstCloser(p + 1)

\* Index of the comment opener the cursor is at, after whitespace; 0 when
\* the cursor is not at an opener of the input.
OpenerAtCursor ==
    LET p == skip_whitespace(mem, lexer.s).pos
    IN  IF p + 1 <= Len(input) /\ input[p] = "/" /\ input[p + 1] = "*" THEN p ELSE 0

\* C13: when the opener at the cursor is followed, two or more characters
\* later, by */, the comment ends right after the first such */: the call
\* returns a token that starts behind it (the first thing after the comment
\* and whitespace, unless that is another comment), also when '*' characters
\* precede the closer.
C13_CommentEndsAtFirstCloser ==
    [][(pc = "loop" /\ OpenerAtCursor # 0 /\ FirstCloser(OpenerAtCursor + 2) # 0) =>
         LET q == FirstCloser(OpenerAtCursor + 2)
             n == skip_whitespace(mem, [pos |-> q + 2, line |-> 1, col |-> 1]).pos
         IN  /\ pc' = "loop"
             /\ Len(tokens') = Len(tokens) + 1
             /\ lexer'.pre_state.pos >= q + 2
             /\ ~(mem[n] = "/" /\ peek(mem, [pos |-> n + 1]) = "*")
                  => lexer'.pre_state.pos = n]_vars

\* The pieces of an ERROR token's message from index a on up to, not
\* including, the first piece equal to stop.
RECURSIVE PiecesUntil(_, _, _)
PiecesUntil(str, a, stop) ==
    IF a > Len(str) \/ str[a] = stop THEN <<>>
    ELSE <<str[a]>> \o PiecesUntil(str, a + 1, stop)

\* "line, col" as the message of error() prints a scanner's position.
Shown(sc) ==
    int_to_string(Int32(sc.line)) \o <<", ">> \o int_to_string(Int32(sc.col))

\* C14: the excerpt in an ERROR token's message is the source slice from
\* token_start up to, not including, the cursor at the moment the error was
\* detected, its length the difference of the two positions, also across
\* newlines; the length is never negative (the run never dies building it).
C14_ErrorExcerpt ==
    /\ pc # "aborted"
    /\ (tokens # <<>> /\ Last(tokens).name = "ERROR") =>
         LET str     == Last(tokens).value.str
             k       == CHOOSE i \in 1..Len(str) : str[i] = Pad28
             c       == CHOOSE i \in 1..Len(str) : str[i] = "): "
             at      == PiecesUntil(str, k + 2, "): ")
             excerpt == SubSeq(str, c + 1, Len(str))
             d       == IF at = Shown(lexer.s) THEN lexer.s.pos ELSE lexer.s.pos - 1
         IN  /\ excerpt = SubSeq(mem, lexer.pre_state.pos, d - 1)
             /\ Len(excerpt) = d - lexer.pre_state.pos

\* The decimal digit run (leading zeros stripped) denotes a value above
\* 2147483647.
ExceedsIntMax(run) ==
    LET r   == StripZeros(run)
        max == <<"2", "1", "4", "7", "4", "8", "3", "6", "4", "7">>
        Gt(a, b) == \E i \in 1..10 :
                       /\ \A j \in 1..(i - 1) : a[j] = b[j]
                       /\ Ord(a[i]) > Ord(b[i])
    IN  Len(r) > 10 \/ (Len(r) = 10 /\ Gt(r, max))

\* C15: a digit run whose value exceeds 2147483647 yields an ERROR token
\* "Number exceeds maximum value", never an INTEGER token with a wrapped or
\* truncated value.
C15_IntegerOverflow ==
    [][(tokens' # tokens /\ is_digit(mem'[lexer'.pre_state.pos])) =>
         LET p   == lexer'.pre_state.pos
             e   == DigitRunEnd(mem', p)
             run == SubSeq(mem', p, e - 1)
             t   == Last(tokens')
         IN  (~is_id_start(mem'[e]) /\ ExceedsIntMax(run)) =>
                /\ t.name = "ERROR"
                /\ SubSeq(t.value.str, 1, 1) = <<"Number exceeds maximum value">>]_vars

\* Index of the first double quote at or after p on the same line; 0 when
\* the line or the input ends first.
RECURSIVE QuoteOnLine(_, _)
QuoteOnLine(m, p) ==
    IF p > Len(m) \/ m[p] \in {NL, NUL} THEN 0
    ELSE IF m[p] = DQ THEN p
    ELSE QuoteOnLine(m, p + 1)

\* One past the last character of the malformed construct starting at p: a
\* character constant holding two ordinary characters between its quotes,
\* or a string literal closed on its line whose body has an unknown escape;
\* 0 when no such construct starts at p.
MalformedEnd(m, p) ==
    CASE m[p] = SQ /\ p + 3 <= Len(m) ->
           IF /\ m[p + 1] \notin {SQ, BSL, NL, NUL}
              /\ m[p + 2] \notin {SQ, BSL, NL, NUL}
              /\ m[p + 3] = SQ
           THEN p + 4 ELSE 0
      [] m[p] = DQ ->
           IF QuoteOnLine(m, p + 1) # 0 /\ StringClose(m, p + 1) = 0
           THEN QuoteOnLine(m, p + 1) + 1 ELSE 0
      [] OTHER -> 0

\* C16: a malformed construct yields exactly one ERROR token and no further
\* token is produced from its characters: the call that meets it returns an
\* ERROR and leaves the cursor behind the construct.
C16_OneErrorPerConstruct ==
    [][(pc = "loop" /\ MalformedEnd(mem, skip_whitespace(mem, lexer.s).pos) # 0) =>
         /\ Len(tokens') = Len(tokens) + 1
         /\ Last(tokens').name = "ERROR"
         /\ lexer'.pre_state.pos = skip_whitespace(mem, lexer.s).pos
         /\ lexer'.s.pos = MalformedEnd(mem, lexer'.pre_state.pos)]_vars

\* The token_start snapshot is preserved across the recursive re-entry: the
\* token returned by a call that starts at a comment opener carries the
\* line and column of that opener, and the snapshot still stands there.
C17_SnapshotPreservedAcrossComments ==
    [][(OpenerAtCursor # 0 /\ tokens' # tokens) =>
         /\ lexer'.pre_state.pos = OpenerAtCursor
         /\ Last(tokens').line = LineAt(mem', OpenerAtCursor)
         /\ Last(tokens').column = ColAt(mem', OpenerAtCursor)]_vars

\* C17: the token_start snapshot is retaken by every entry of next_token,
\* the recursive re-entry after a block comment included: a call that starts
\* at a comment opener either returns the unterminated-comment ERROR placed
\* at that opener, or returns a token that starts behind a closed comment,
\* with the snapshot on that token's own first character and the token
\* carrying that character's line and column.
C17_SnapshotRetakenAfterComment ==
    [][(OpenerAtCursor # 0 /\ tokens' # tokens) =>
         LET o == OpenerAtCursor
             p == lexer'.pre_state.pos
             t == Last(tokens')
         IN  /\ t.line = lexer'.pre_state.line
             /\ t.column = lexer'.pre_state.col
             /\ t.line = LineAt(mem', p)
             /\ t.column = ColAt(mem', p)
             /\ \/ /\ p = o
                   /\ t.name = "ERROR"
                   /\ SubSeq(t.value.str, 1, 1) =
                        <<"End-of-file in comment. Closing comment characters not found.">>
                \/ /\ p >= o + 4
                   /\ ~isspace(mem'[p])
                   /\ LET b == BackOverBlanks(mem', p - 1)
                      IN  mem'[b] = "/" /\ mem'[b - 1] = "*"
                   /\ <<t.line, t.column>> # <<LineAt(mem', o), ColAt(mem', o)>>]_vars

\* An identifier returned by a call that skipped a block comment: it stands
\* right behind the closer (and blanks) and carries its own position.
C17_Witness ==
    /\ tokens # <<>>
    /\ Last(tokens).name = "IDENTIFIER"
    /\ lexer.pre_state.pos >= 5
    /\ mem[BackOverBlanks(mem, lexer.pre_state.pos - 1)] = "/"
    /\ mem[BackOverBlanks(mem, lexer.pre_state.pos - 1) - 1] = "*"
    /\ Last(tokens).line = LineAt(mem, lexer.pre_state.pos)
    /\ Last(tokens).column = ColAt(mem, lexer.pre_state.pos)

\* The scanner sc stands where counting from (1, 1) over the characters
\* before it puts it.
Counted(sc) ==
    /\ sc.line = LineAt(mem, sc.pos)
    /\ sc.col = ColAt(mem, sc.pos)
    /\ sc.line >= 1
    /\ sc.col >= 1

\* C18: a scanner advanced from (line 1, column 1) has line = 1 + the
\* newlines consumed and column = 1 + the characters consumed since the last
\* newline, both at least 1; the snapshot pre_state is a copy of its own: the
\* advances of the live scanner s leave it where it was taken, at or before
\* the live scanner, and before it once a token's characters were consumed.
C18_ScannerCounts ==
    /\ Counted(lexer.s)
    /\ Counted(lexer.pre_state)
    /\ lexer.pre_state.pos <= lexer.s.pos
    /\ (lexer.pre_state.pos = lexer.s.pos) = (lexer.pre_state = lexer.s)
    /\ (tokens # <<>> /\ Last(tokens).name # "END_OF_INPUT") =>
          /\ lexer.pre_state.pos < lexer.s.pos
          /\ ~isspace(mem[lexer.pre_state.pos])

\* The live scanner has crossed a newline since the snapshot was taken.
C18_Witness ==
    /\ tokens # <<>>
    /\ lexer.s.line >= 2
    /\ lexer.pre_state.line < lexer.s.line
    /\ lexer.pre_state.pos < lexer.s.pos

\* The character of the input at index k; the sentinel behind its end.
InputAt(k) == IF k <= Len(input) THEN input[k] ELSE NUL

\* What the character constant that starts at p is to yield: "ERROR", or
\* the ordinal of its character with the index behind its closing quote.
CharLitExpected(p) ==
    LET a == InputAt(p + 1)
        b == InputAt(p + 2)
        c == InputAt(p + 3)
        Err == [name |-> "ERROR", ord |-> 0, end |-> 0]
        Val(v, e) == [name |-> "INTEGER", ord |-> v, end |-> e]
    IN  CASE a = SQ  -> Err
          [] a = NUL -> Err
          [] a = BSL ->
               IF b \in {"n", BSL} /\ c = SQ
               THEN Val(IF b = "n" THEN 10 ELSE 92, p + 4) ELSE Err
          [] OTHER -> IF b = SQ THEN Val(Ord(a), p + 3) ELSE Err

\* C19: a character constant yields ERROR when it is empty, when its escape
\* is neither \n nor \\, when its single character is not followed at once
\* by the closing quote, and when the input ends first; otherwise it yields
\* an INTEGER holding the ordinal of its character (10 for \n, 92 for \\)
\* and the whole constant is consumed.
C19_CharLiteral ==
    [][(pc = "loop" /\ InputAt(skip_whitespace(mem, lexer.s).pos) = SQ) =>
         LET p == skip_whitespace(mem, lexer.s).pos
             x == CharLitExpected(p)
             t == Last(tokens')
         IN  /\ pc' = "loop"
             /\ Len(tokens') = Len(tokens) + 1
             /\ lexer'.pre_state.pos = p
             /\ t.name = x.name
             /\ x.name = "INTEGER" =>
                  /\ t.value = IntVal(Int32(x.ord))
                  /\ lexer'.s.pos = x.end]_vars

\* C20: a call that finds the sentinel behind the whitespace it skips
\* returns END_OF_INPUT and consumes nothing more: the cursor stays where the
\* whitespace skip left it.  Wherever END_OF_INPUT is returned, it is placed
\* at the cursor, both scanners stand on the sentinel, has_more is false, and
\* a further call returns the same token and leaves the scanners as they
\* are.
C20_EndOfInputConsumesNothing ==
    [][tokens' # tokens =>
         LET s0 == skip_whitespace(mem', lexer.s)
             t  == Last(tokens')
             r  == next_token(mem', lexer')
         IN  /\ peek(mem', s0) = NUL =>
                  /\ t.name = "END_OF_INPUT"
                  /\ lexer'.s = s0
             /\ t.name = "END_OF_INPUT" =>
                  /\ peek(mem', lexer'.s) = NUL
                  /\ lexer'.pre_state = lexer'.s
                  /\ t.line = lexer'.s.line
                  /\ t.column = lexer'.s.col
                  /\ ~has_more(mem', lexer')
                  /\ r.fault = "none"
                  /\ r.tok = t
                  /\ r.s = lexer'.s
                  /\ r.pre_state = lexer'.s]_vars

\* END_OF_INPUT returned behind other tokens and a skipped blank.
C20_Witness ==
    /\ Len(tokens) >= 2
    /\ Last(tokens).name = "END_OF_INPUT"
    /\ lexer.s = lexer.pre_state
    /\ isspace(mem[lexer.s.pos - 1])
    /\ peek(mem, lexer.s) = NUL

=============================================================================
